---------------------------- MODULE Spec2Model ----------------------------
(***************************************************************************)
(* Record lookup application (src/app.py): the spreadsheet loader          *)
(* load_data, the search and export request handlers, and the password     *)
(* gated update_data reload.                                               *)
(*                                                                         *)
(* Text is modelled as a sequence of one-character strings over a small    *)
(* ASCII alphabet, so that strip / upper / lower / split / isdigit / `in`  *)
(* are computed the way Python computes them.                              *)
(***************************************************************************)
EXTENDS Integers, Sequences, FiniteSets, TLC

VARIABLES
    disk,        \* data.xlsx on disk: a workbook, or a marker (missing, truncated)
    heap,        \* the Python list objects built by load_data, by identity
    data,        \* the module global `data`: a reference into heap
    authorized,  \* session['update_authorized'] in the session cookie each client holds
    sent,        \* the session cookie on an update_data request sent and not yet handled
    upd,         \* the update_data / check_update_auth request of each session
    rdr,         \* the search / export request of each reader thread
    loaded,      \* outcome of load_data at process start
    passed,      \* history: the sessions that have sent the correct password
    used         \* history: the sessions whose last password check an update has used up

vars == <<disk, heap, data, authorized, sent, upd, rdr, loaded, passed, used>>

-----------------------------------------------------------------------------
(* Bounds of the model.                                                    *)

MaxTail == 2
MaxTokens == 2
MaxRecs == 2
MaxSortLen == 4
MaxRows == 2

-----------------------------------------------------------------------------
(* Characters and Python's str methods.                                    *)

Digits == {"0", "1", "2", "3", "5"}
Whitespace == {" "}

UpperChar(c) ==
    CASE c = "s" -> "S" [] c = "n" -> "N" [] c = "f" -> "F"
      [] c = "a" -> "A" [] c = "b" -> "B" [] c = "c" -> "C"
      [] c = "x" -> "X" [] OTHER -> c

LowerChar(c) ==
    CASE c = "S" -> "s" [] c = "N" -> "n" [] c = "F" -> "f"
      [] c = "A" -> "a" [] c = "B" -> "b" [] c = "C" -> "c"
      [] c = "X" -> "x" [] OTHER -> c

upper(s) == [i \in 1..Len(s) |-> UpperChar(s[i])]
lower(s) == [i \in 1..Len(s) |-> LowerChar(s[i])]

RECURSIVE lstrip(_)
lstrip(s) == IF s # <<>> /\ Head(s) \in Whitespace THEN lstrip(Tail(s)) ELSE s

RECURSIVE rstrip(_)
rstrip(s) ==
    IF s # <<>> /\ s[Len(s)] \in Whitespace
    THEN rstrip(SubSeq(s, 1, Len(s) - 1))
    ELSE s

strip(s) == rstrip(lstrip(s))

startswith(s, p) == Len(s) >= Len(p) /\ SubSeq(s, 1, Len(p)) = p

\* sub in s
contains(sub, s) ==
    \E i \in 0..(Len(s) - Len(sub)) : SubSeq(s, i + 1, i + Len(sub)) = sub

\* s.isdigit()
isdigit(s) == s # <<>> /\ \A i \in 1..Len(s) : s[i] \in Digits

\* s.split(sep) for a one-character separator: the parts between separators,
\* empty parts kept.
RECURSIVE split_on(_, _, _)
split_on(s, sep, cur) ==
    IF s = <<>> THEN <<cur>>
    ELSE IF Head(s) = sep THEN <<cur>> \o split_on(Tail(s), sep, <<>>)
    ELSE split_on(Tail(s), sep, Append(cur, Head(s)))

split_sep(s, sep) == split_on(s, sep, <<>>)

\* s.split(): the runs of non-whitespace characters.
RECURSIVE split_ws_from(_, _)
split_ws_from(s, cur) ==
    IF s = <<>> THEN (IF cur = <<>> THEN <<>> ELSE <<cur>>)
    ELSE IF Head(s) \in Whitespace
         THEN (IF cur = <<>> THEN <<>> ELSE <<cur>>) \o split_ws_from(Tail(s), <<>>)
         ELSE split_ws_from(Tail(s), Append(cur, Head(s)))

split_ws(s) == split_ws_from(s, <<>>)

\* ''.join(filter(str.isdigit, s))
RECURSIVE filter_digits(_)
filter_digits(s) ==
    IF s = <<>> THEN <<>>
    ELSE IF Head(s) \in Digits THEN <<Head(s)>> \o filter_digits(Tail(s))
    ELSE filter_digits(Tail(s))

DigitValue(c) ==
    CASE c = "0" -> 0 [] c = "1" -> 1 [] c = "2" -> 2 [] c = "3" -> 3
      [] c = "5" -> 5 [] OTHER -> 0

\* int(s) for a non-empty string of digits
RECURSIVE int_of(_)
int_of(s) ==
    IF s = <<>> THEN 0
    ELSE 10 * int_of(SubSeq(s, 1, Len(s) - 1)) + DigitValue(s[Len(s)])

-----------------------------------------------------------------------------
(* Records.                                                                *)

Fields == <<"associate_name", "associate_id", "receiver_name",
            "form_status", "line_no", "set_no">>

Rec(name, id, recv, status, line, setno) ==
    [associate_name |-> name, associate_id |-> id, receiver_name |-> recv,
     form_status |-> status, line_no |-> line, set_no |-> setno]

SNF_ == <<"S", "N", "F", "/">>


-----------------------------------------------------------------------------
(* validate_search_term                                                    *)

MsgFormat == "Invalid SNF format. Please use format: SNF/number (e.g., SNF/251)"
MsgNumbers == "Invalid SNF format. Only numbers are allowed after SNF/ (e.g., SNF/251)"
MsgNone == "None"

validate_search_term(search_term) ==
    IF search_term = <<>> THEN [ok |-> TRUE, msg |-> MsgNone]
    ELSE IF startswith(upper(search_term), SNF_)
    THEN LET parts == split_sep(search_term, "/")
         IN  IF Len(parts) # 2 THEN [ok |-> FALSE, msg |-> MsgFormat]
             ELSE IF upper(parts[1]) # <<"S", "N", "F">>
                  THEN [ok |-> FALSE, msg |-> MsgFormat]
             ELSE LET number_part == strip(parts[2])
                  IN  IF number_part = <<>> \/ ~isdigit(number_part)
                      THEN [ok |-> FALSE, msg |-> MsgNumbers]
                      ELSE [ok |-> TRUE, msg |-> MsgNone]
    ELSE [ok |-> TRUE, msg |-> MsgNone]

-----------------------------------------------------------------------------
(* search: the selector actually used, the per-record test, the sort.      *)

SearchTypes == {"all", "associate_name", "associate_id", "receiver_name",
                "set_no", "line_no"}

\* a search_type value outside the six defined ones
OtherType == "other"

\* as forced_search_type, without the override for SNF/ terms
SearchTypeAsRequested(search_term, search_type) == search_type

\* `if search_term.upper().startswith('SNF/'): search_type = 'set_no'`
forced_search_type(search_term, search_type) ==
    IF startswith(upper(search_term), SNF_) THEN "set_no" ELSE search_type

\* `part == line_no.lower()` of the multi-word branch of 'all', and
\* `search_term == line_no` of its single-word branch
line_test_multi(part, search_term, line_no) == part = lower(line_no)

line_test_single(part, search_term, line_no) == search_term = line_no

\* as set_no_test, were a set_no that contains the term a match
SetNoTestContains(search_term, set_no) == contains(upper(search_term), set_no)

\* `search_term.upper() == set_no` of the set_no selector
set_no_test(search_term, set_no) == upper(search_term) = set_no

\* as line_no_test, were the comparison made without regard to case
LineNoTestNoCase(search_term, line_no) == lower(search_term) = lower(line_no)

\* `search_term == line_no` of the line_no selector
line_no_test(search_term, line_no) == search_term = line_no

\* the body of `for rec in data:` up to `if match:`
match_record(rec, search_term, search_type) ==
    LET search_lower == lower(search_term)
        associate_name == strip(lower(rec.associate_name))
        associate_id == strip(lower(rec.associate_id))
        receiver_name == strip(lower(rec.receiver_name))
        set_no == strip(upper(rec.set_no))
        line_no == strip(rec.line_no)
        in_text(part) == \/ contains(part, associate_name)
                         \/ contains(part, associate_id)
                         \/ contains(part, receiver_name)
                         \/ contains(part, lower(set_no))
    IN  CASE search_type = "all" ->
               IF startswith(upper(search_term), SNF_)
               THEN upper(search_term) = set_no
               ELSE LET search_parts == split_ws(search_lower)
                    IN  IF Len(search_parts) > 1
                        THEN \A k \in 1..Len(search_parts) :
                                \/ in_text(search_parts[k])
                                \/ line_test_multi(search_parts[k], search_term, line_no)
                        ELSE \/ in_text(search_lower)
                             \/ line_test_single(search_lower, search_term, line_no)
          [] search_type = "associate_name" -> contains(search_lower, associate_name)
          [] search_type = "associate_id" -> contains(search_lower, associate_id)
          [] search_type = "receiver_name" -> contains(search_lower, receiver_name)
          [] search_type = "set_no" -> set_no_test(search_term, set_no)
          [] search_type = "line_no" -> line_no_test(search_term, line_no)
          [] OTHER -> FALSE

\* float('inf') is [inf |-> TRUE]; an int n is [inf |-> FALSE, n |-> n]
Inf == [inf |-> TRUE, n |-> 0]

\* as get_line_number, but a line_no without digits counts as 0
LineNumberZeroDefault(record) ==
    [inf |-> FALSE, n |-> int_of(filter_digits(record.line_no))]

get_line_number(record) ==
    LET line_no == filter_digits(record.line_no)
    IN  IF line_no # <<>> THEN [inf |-> FALSE, n |-> int_of(line_no)] ELSE Inf

\* a < b on sort keys
key_less(a, b) == ~a.inf /\ (b.inf \/ a.n < b.n)

\* list.sort(key=get_line_number): stable, so each element goes after the
\* elements already placed whose key is not greater.
RECURSIVE insert_sorted(_, _)
insert_sorted(sorted, r) ==
    IF sorted = <<>> THEN <<r>>
    ELSE IF key_less(get_line_number(r), get_line_number(Head(sorted)))
         THEN <<r>> \o sorted
         ELSE <<Head(sorted)>> \o insert_sorted(Tail(sorted), r)

RECURSIVE sort_from(_, _)
sort_from(rest, sorted) ==
    IF rest = <<>> THEN sorted
    ELSE sort_from(Tail(rest), insert_sorted(sorted, Head(rest)))

sort_results(results) == sort_from(results, <<>>)

\* the records of `records` for which the per-record test holds, in order
RECURSIVE scan(_, _, _)
scan(records, search_term, search_type) ==
    IF records = <<>> THEN <<>>
    ELSE (IF match_record(Head(records), search_term, search_type)
          THEN <<Head(records)>> ELSE <<>>)
         \o scan(Tail(records), search_term, search_type)

\* The rendered page: the template arguments of render_template_string.
\* results=None is has_results = FALSE; scanned counts the records the
\* `for rec in data` loop looked at.
Page(has, results, term, type, error, scanned) ==
    [status |-> "200", has_results |-> has, results |-> results, search_term |-> term,
     search_type |-> type, error |-> error, scanned |-> scanned]

\* as term_given, were the scan run for the empty term too
TermGivenAlways(search_term) == TRUE

\* `if search_term:` before the scan
term_given(search_term) == search_term # <<>>

\* search() run to its end against one list
search(records, raw_term, requested_type) ==
    LET search_term == strip(raw_term)
        search_type == forced_search_type(search_term, requested_type)
        v == IF startswith(upper(search_term), SNF_)
             THEN validate_search_term(search_term)
             ELSE [ok |-> TRUE, msg |-> MsgNone]
    IN  IF ~v.ok
        THEN Page(FALSE, <<>>, <<>>, search_type, v.msg, 0)
        ELSE IF term_given(search_term)
        THEN Page(TRUE, sort_results(scan(records, search_term, search_type)),
                  search_term, search_type, MsgNone, Len(records))
        ELSE Page(FALSE, <<>>, search_term, search_type, MsgNone, 0)


-----------------------------------------------------------------------------
(* load_data.  A workbook is its header row (column names, as read_excel   *)
(* returns them: no name twice) and its data rows; a row gives one cell    *)
(* per column; a cell is text or blank (NaN).                              *)

\* column_mapping, in the order of the dict
column_mapping(required_col) ==
    CASE required_col = "associate_name" ->
           <<"ASSOCIATE NAME", "associate_name", "Associate Name", "Name", "NAME">>
      [] required_col = "associate_id" ->
           <<"ASSOCIATE ID", "associate_id", "Associate ID", "ID", "id">>
      [] required_col = "receiver_name" ->
           <<"RECEIVER'S NAME", "receiver_name", "Receiver Name", "RECEIVER NAME",
             "Receiver", "RECEIVER">>
      [] required_col = "form_status" ->
           <<"FORM STATUS", "form_status", "Form Status", "Status", "STATUS">>
      [] required_col = "line_no" ->
           <<"LINE NO.", "line_no", "Line No", "LINE NO", "Line", "LINE">>
      [] required_col = "set_no" ->
           <<"SET-NO.OF FORM", "set_no", "Set No", "SET NO", "Set", "SET">>

Columns(header) == {header[i] : i \in 1..Len(header)}

\* position in possible_names of the first name that is a column, 0 if none
RECURSIVE first_present(_, _, _)
first_present(possible_names, columns, k) ==
    IF k > Len(possible_names) THEN 0
    ELSE IF possible_names[k] \in columns THEN k
    ELSE first_present(possible_names, columns, k + 1)

\* found_columns[required_col], "" when no alias of it is in the header
found_column(required_col, header) ==
    LET k == first_present(column_mapping(required_col), Columns(header), 1)
    IN  IF k = 0 THEN "" ELSE column_mapping(required_col)[k]

\* the first canonical field without a column, "" when all are found
RECURSIVE first_missing(_, _)
first_missing(header, k) ==
    IF k > Len(Fields) THEN ""
    ELSE IF found_column(Fields[k], header) = "" THEN Fields[k]
    ELSE first_missing(header, k + 1)

\* df.rename(columns={found_columns[k]: k}): the column labels afterwards
renamed(header) ==
    [i \in 1..Len(header) |->
        IF \E f \in Columns(Fields) : found_column(f, header) = header[i]
        THEN CHOOSE f \in Columns(Fields) : found_column(f, header) = header[i]
        ELSE header[i]]

\* after the rename two columns carry one label: df[col] is then a
\* DataFrame, which has no .str, and the loop over df.columns raises
duplicate_labels(header) ==
    \E i, j \in 1..Len(header) : i # j /\ renamed(header)[i] = renamed(header)[j]

\* fillna(""), astype(str), str.strip() of one cell
clean_cell(cell) == IF cell.nan THEN <<>> ELSE strip(cell.text)

\* row[required_col] of the cleaned frame
row_value(row, required_col, header) ==
    clean_cell(row[found_column(required_col, header)])

\* as set_no_ok, were every row kept whatever its set_no
SetNoOkAlways(set_no) == TRUE

\* `str(row['set_no']).upper().startswith('SNF/')`
set_no_ok(set_no) == startswith(upper(set_no), SNF_)

\* as row_number, counting the data rows from 1
RowNumberFromOne(index) == index + 1

\* the row number recorded for the row at `index` of the frame
row_number(index) == index + 2

record_of(row, header) ==
    [f \in Columns(Fields) |-> row_value(row, f, header)]

RECURSIVE load_rows(_, _, _)
load_rows(rows, header, index) ==
    IF index >= Len(rows) THEN [data |-> <<>>, invalid_rows |-> <<>>]
    ELSE LET rest == load_rows(rows, header, index + 1)
             row == rows[index + 1]
             set_no == row_value(row, "set_no", header)
         IN  IF ~set_no_ok(set_no)
             THEN [data |-> rest.data,
                   invalid_rows |-> <<[row |-> row_number(index), value |-> set_no]>>
                                       \o rest.invalid_rows]
             ELSE [data |-> <<record_of(row, header)>> \o rest.data,
                   invalid_rows |-> rest.invalid_rows]

LoadFailed(why, field, columns) ==
    [called |-> TRUE, ok |-> FALSE, data |-> <<>>, invalid_rows |-> <<>>,
     error |-> why, field |-> field, columns |-> columns]

\* load_data on the frame read_excel returned
load_frame(df) ==
    IF first_missing(df.header, 1) # ""
    THEN LoadFailed("Could not find column", first_missing(df.header, 1), df.header)
    ELSE IF duplicate_labels(df.header)
    THEN LoadFailed("AttributeError", "", df.header)
    ELSE LET out == load_rows(df.rows, df.header, 0)
         IN  [called |-> TRUE, ok |-> TRUE, data |-> out.data,
              invalid_rows |-> out.invalid_rows, error |-> "none",
              field |-> "", columns |-> df.header]

\* load_data(file_path) on the file as it is on disk; ok = FALSE is
\* `raise DataError(...)`
load_data(file) ==
    IF file.kind = "missing" THEN LoadFailed("Data file not found", "", <<>>)
    ELSE IF file.kind # "xlsx" THEN LoadFailed("read_excel failed", "", <<>>)
    ELSE load_frame([header |-> file.header, rows |-> file.rows])

-----------------------------------------------------------------------------
(* Request threads.  A reader thread serves one search or export request   *)
(* at a time; an updater serves the check_update_auth and update_data      *)
(* requests of one client session.                                         *)

Readers == {"r1"}
Sessions == {"s1", "s2"}

NoPage == [status |-> "none", has_results |-> FALSE, results |-> <<>>,
           search_term |-> <<>>, search_type |-> "all", error |-> MsgNone,
           scanned |-> 0]

IdleReader == [pc |-> "idle", kind |-> "none", raw |-> <<>>, type |-> "all",
               list |-> 0, idx |-> 0, results |-> <<>>, resp |-> NoPage,
               seen |-> {}]

NoSheet == [header |-> <<>>, rows |-> <<>>]

IdleUpdater == [pc |-> "idle", body |-> [kind |-> "none", header |-> <<>>, rows |-> <<>>],
                df |-> NoSheet, list |-> 0, row |-> 0, invalid |-> <<>>,
                resp |-> "none"]

\* the workbook export_excel writes for the records: the six canonical
\* columns, one row per record
SheetOf(records) ==
    [kind |-> "xlsx", header |-> Fields,
     rows |-> [i \in 1..Len(records) |->
                 [col \in {Fields[k] : k \in 1..Len(Fields)} |->
                     [nan |-> records[i][col] = <<>>, text |-> records[i][col]]]]]

\* the outcome of a load that returned the records
Loaded(records) ==
    [called |-> TRUE, ok |-> TRUE, data |-> records, invalid_rows |-> <<>>,
     error |-> "none", field |-> "", columns |-> Fields]

NoLoad == [called |-> FALSE, ok |-> FALSE, data |-> <<>>, invalid_rows |-> <<>>,
           error |-> "none", field |-> "", columns |-> <<>>]

Missing == [kind |-> "missing", header |-> <<>>, rows |-> <<>>]
Truncated == [kind |-> "truncated", header |-> <<>>, rows |-> <<>>]
Corrupt == [kind |-> "corrupt", header |-> <<>>, rows |-> <<>>]
Xlsx(header, rows) == [kind |-> "xlsx", header |-> header, rows |-> rows]

\* A list object is named by its slot in heap; 0 is no list.  There are as
\* many slots as references that can be held at once: the global, one list
\* under construction per update request, one list under iteration per reader.
ListIds == 1..(1 + Cardinality(Sessions) + Cardinality(Readers))

NoLists == [i \in ListIds |-> <<>>]
OneList(d) == [i \in ListIds |-> IF i = 1 THEN d ELSE <<>>]

\* the list the global `data` refers to
TheData == IF data = 0 THEN <<>> ELSE heap[data]

\* the list i is referenced: by the global, by a loop over it, or by the
\* load_data that is building it
Referenced(i, d, rd, up) ==
    \/ i = d
    \/ \E r \in Readers : rd[r].list = i
    \/ \E s \in Sessions : up[s].list = i

\* a list nothing refers to is reclaimed: its slot is empty again
Collect(h, d, rd, up) ==
    [i \in ListIds |-> IF Referenced(i, d, rd, up) THEN h[i] ELSE <<>>]

\* the slot of a newly created list
NewList ==
    CHOOSE i \in ListIds :
        /\ ~Referenced(i, data, rdr, upd)
        /\ \A j \in 1..(i - 1) : Referenced(j, data, rdr, upd)

-----------------------------------------------------------------------------
(* Inputs of the search specifications.                                    *)

RECURSIVE SeqsUpTo(_, _)
SeqsUpTo(S, n) ==
    IF n = 0 THEN {<<>>}
    ELSE LET shorter == SeqsUpTo(S, n - 1)
         IN  shorter \cup {Append(q, x) : q \in shorter, x \in S}

TailChars == {"1", "/", " ", "a"}

\* terms that begin with SNF/ in either case, followed by any short tail
IdentTerms == {p \o t : p \in {SNF_, <<"s", "n", "f", "/">>},
                        t \in SeqsUpTo(TailChars, MaxTail)}

Tokens == {<<"1", "2", "b">>, <<"1", "2", "B">>, <<"x">>, <<"1">>, <<"a", "b">>}

RECURSIVE JoinWs(_)
JoinWs(ts) ==
    IF ts = <<>> THEN <<>>
    ELSE IF Len(ts) = 1 THEN ts[1]
    ELSE ts[1] \o <<" ">> \o JoinWs(Tail(ts))

FreeTerms ==
    {JoinWs(ts) : ts \in SeqsUpTo(Tokens, MaxTokens)}
      \cup {<<" ">> \o t \o <<" ">> : t \in Tokens}
      \cup {<<" ">>, <<"0", "1">>}

RawTerms == IdentTerms \cup FreeTerms

RequestTypes == SearchTypes \cup {OtherType}

\* Records as load_data leaves them: every field stripped, set_no beginning
\* with SNF/ in some case.
SearchRecords ==
    { Rec(<<"a", "b">>, <<"1">>, <<"x">>, <<"o", "k">>, <<"1", "2", "B">>, SNF_ \o <<"1">>),
      Rec(<<"b">>, <<"2">>, <<"a", "b">>, <<"o", "k">>, <<"3">>, <<"s", "n", "f", "/", "1">>),
      Rec(<<"a">>, <<"1", "2">>, <<"x">>, <<"n", "o">>, <<"1">>, SNF_ \o <<"1", "1">>),
      Rec(<<"x">>, <<"5">>, <<"b">>, <<"o", "k">>, <<"a", "b">>, SNF_ \o <<" ", "1">>) }

SearchDatasets == SeqsUpTo(SearchRecords, MaxRecs)

-----------------------------------------------------------------------------
(* The search request, run to its end in one step (no other thread runs),  *)
(* in a process that has loaded the dataset d from its data.xlsx.          *)

SearchRequest(r, raw, type) ==
    /\ rdr[r].pc = "idle"
    /\ rdr' = [rdr EXCEPT ![r] =
                 [IdleReader EXCEPT !.pc = "done", !.kind = "search",
                                    !.raw = raw, !.type = type,
                                    !.resp = search(TheData, raw, type)]]
    /\ UNCHANGED <<disk, heap, data, authorized, upd, loaded, passed, sent, used>>

InitSearch ==
    /\ \E d \in SearchDatasets : /\ disk = SheetOf(d)
                              /\ heap = OneList(d)
                              /\ loaded = Loaded(d)
    /\ data = 1
    /\ authorized = [s \in Sessions |-> FALSE]
    /\ upd = [s \in Sessions |-> IdleUpdater]
    /\ rdr = [r \in Readers |-> IdleReader]
    /\ passed = {}
    /\ sent = [s \in Sessions |-> "none"]
    /\ used = {}

NextSearch == \E r \in Readers, raw \in RawTerms, type \in RequestTypes :
                 SearchRequest(r, raw, type)

SpecSearch == InitSearch /\ [][NextSearch]_vars

-----------------------------------------------------------------------------
(* Inputs of the sort specification: records that differ in line_no, and   *)
(* terms that select some or all of them.                                  *)

SortLineNos == {<<"1", "2", "B">>, <<"3">>, <<"a", "b", "c">>, <<"1">>,
                <<"0", "1">>, <<"x">>}

SortRecords ==
    {Rec(<<"a">>, <<"5">>, <<"b">>, <<"o", "k">>, ln, SNF_ \o <<"1">>) :
        ln \in SortLineNos}

SortDatasets == SeqsUpTo(SortRecords, MaxSortLen)

SortTerms == {<<"a">>, <<"x">>, SNF_ \o <<"1">>}

InitSort ==
    /\ \E d \in SortDatasets : /\ disk = SheetOf(d)
                              /\ heap = OneList(d)
                              /\ loaded = Loaded(d)
    /\ data = 1
    /\ authorized = [s \in Sessions |-> FALSE]
    /\ upd = [s \in Sessions |-> IdleUpdater]
    /\ rdr = [r \in Readers |-> IdleReader]
    /\ passed = {}
    /\ sent = [s \in Sessions |-> "none"]
    /\ used = {}

NextSort == \E r \in Readers, raw \in SortTerms :
               SearchRequest(r, raw, "all")

SpecSort == InitSort /\ [][NextSort]_vars

-----------------------------------------------------------------------------
(* The load at process start:                                              *)
(*     try: data = load_data('data.xlsx')  except DataError: data = []     *)
(* Before it has run there is no list and `data` refers to nothing (0).    *)

\* the list the module-level code binds to `data`
module_level_data(result) == IF result.ok THEN result.data ELSE <<>>

Startup ==
    /\ data = 0
    /\ loaded' = load_data(disk)
    /\ heap' = OneList(module_level_data(load_data(disk)))
    /\ data' = 1
    /\ UNCHANGED <<disk, authorized, upd, rdr, passed, sent, used>>

-----------------------------------------------------------------------------
(* Inputs of the load specification.                                       *)

Text(s) == [nan |-> FALSE, text |-> s]
Blank == [nan |-> TRUE, text |-> <<>>]

HFirst == <<"ASSOCIATE NAME", "ASSOCIATE ID", "RECEIVER'S NAME", "FORM STATUS",
            "LINE NO.", "SET-NO.OF FORM">>
HCanonical == <<"associate_name", "associate_id", "receiver_name", "form_status",
                "line_no", "set_no">>
HLast == <<"SET", "Notes", "NAME", "id", "RECEIVER", "STATUS", "LINE">>
HNoSetNo == <<"ASSOCIATE NAME", "ASSOCIATE ID", "RECEIVER'S NAME", "FORM STATUS",
              "LINE NO.", "Notes">>
HNoIdNoSetNo == <<"Name", "Receiver", "Status", "Line", "Notes">>
HTwoAliases == <<"Set", "ASSOCIATE NAME", "ASSOCIATE ID", "RECEIVER'S NAME",
                 "FORM STATUS", "LINE NO.", "SET-NO.OF FORM">>
HAliasAndCanonical == <<"ASSOCIATE NAME", "ASSOCIATE ID", "RECEIVER'S NAME",
                        "FORM STATUS", "LINE NO.", "SET-NO.OF FORM", "set_no">>
HNone == <<>>

Headers == {HFirst, HCanonical, HLast, HNoSetNo, HNoIdNoSetNo, HTwoAliases,
            HAliasAndCanonical, HNone}

\* What a data row holds: its set_no cell, the cell of the second set_no
\* column when the sheet has one, and its line_no cell.
RowPatterns ==
    { [set |-> Text(<<" ">> \o SNF_ \o <<"1", " ">>), alt |-> Text(<<"x">>),
       line |-> Text(<<"1", "2", "B">>)],
      [set |-> Text(<<"s", "n", "f", "/", "2", "5">>), alt |-> Blank,
       line |-> Text(<<" ", "3">>)],
      [set |-> Text(<<"x">> \o SNF_ \o <<"1">>), alt |-> Text(SNF_ \o <<"5">>),
       line |-> Blank],
      [set |-> Blank, alt |-> Text(SNF_ \o <<"5">>), line |-> Text(<<"1">>)] }

CellFor(col, p) ==
    CASE col \in {"SET-NO.OF FORM", "SET"} -> p.set
      [] col \in {"set_no", "Set"} -> p.alt
      [] col \in {"LINE NO.", "line_no", "LINE", "Line"} -> p.line
      [] col \in {"ASSOCIATE NAME", "associate_name", "NAME", "Name"} -> Text(<<"a", " ", "b">>)
      [] col = "Notes" -> Blank
      [] OTHER -> Text(<<" ", "x">>)

RowFor(header, p) == [col \in Columns(header) |-> CellFor(col, p)]

LoadFiles ==
    {Missing, Corrupt}
      \cup {Xlsx(h, [i \in 1..Len(ps) |-> RowFor(h, ps[i])]) :
              h \in Headers, ps \in SeqsUpTo(RowPatterns, MaxRows)}

InitLoad ==
    /\ disk \in LoadFiles
    /\ heap = NoLists
    /\ data = 0
    /\ authorized = [s \in Sessions |-> FALSE]
    /\ upd = [s \in Sessions |-> IdleUpdater]
    /\ rdr = [r \in Readers |-> IdleReader]
    /\ loaded = NoLoad
    /\ passed = {}
    /\ sent = [s \in Sessions |-> "none"]
    /\ used = {}

NextLoad == Startup

SpecLoad == InitLoad /\ [][NextLoad]_vars

-----------------------------------------------------------------------------
(* export_excel: the per-record test.                                      *)

export_match(rec, search_term) ==
    LET search_lower == lower(search_term)
        is_set_no_search == startswith(upper(search_term), SNF_)
        is_line_no_search == isdigit(search_term)
    IN  IF is_set_no_search /\ upper(search_term) = upper(rec.set_no) THEN TRUE
        ELSE IF is_line_no_search /\ search_term = rec.line_no THEN TRUE
        ELSE /\ ~is_set_no_search
             /\ ~is_line_no_search
             /\ \/ contains(search_lower, lower(rec.associate_name))
                \/ contains(search_lower, lower(rec.associate_id))
                \/ contains(search_lower, lower(rec.receiver_name))
                \/ contains(search_lower, lower(rec.set_no))

RECURSIVE export_scan(_, _)
export_scan(records, search_term) ==
    IF records = <<>> THEN <<>>
    ELSE (IF export_match(Head(records), search_term) THEN <<Head(records)>> ELSE <<>>)
         \o export_scan(Tail(records), search_term)

\* the response of export_excel: 400 without a term, 404 without results,
\* else the workbook of the selected records
Export(status, results, term, scanned) ==
    [status |-> status, has_results |-> status = "200", results |-> results,
     search_term |-> term, search_type |-> "all", error |-> MsgNone,
     scanned |-> scanned]

export_excel(records, raw_term) ==
    LET search_term == strip(raw_term)
        results == export_scan(records, search_term)
    IN  IF search_term = <<>> THEN Export("400", <<>>, search_term, 0)
        ELSE IF results = <<>> THEN Export("404", <<>>, search_term, Len(records))
        ELSE Export("200", results, search_term, Len(records))

-----------------------------------------------------------------------------
(* The export as a file: what to_excel writes for the selected records and *)
(* what read_excel makes of it when the file is read again.                *)

\* str(n) of a non-negative int
RECURSIVE str_of_int(_)
str_of_int(n) ==
    LET d == CHOOSE c \in Digits : DigitValue(c) = n % 10
    IN  IF n < 10 THEN <<d>> ELSE Append(str_of_int(n \div 10), d)

\* some of the texts read_excel takes for a missing value (default na_values)
NaStrings == {<<"N", "A">>, <<"n", "a", "n">>}

\* the cell is read as NaN: nothing was written, or one of the NA texts
reads_as_nan(cell) == cell.nan \/ cell.text \in NaStrings

\* a text cell the type inference of read_excel takes for a number
reads_as_number(cell) == ~cell.nan /\ isdigit(cell.text)

\* pd.read_excel on a written sheet, column by column: NA texts become NaN;
\* a column whose other cells are all numbers becomes int64, or float64
\* when it has a NaN; the text of a cell is then str() of the value
read_excel(sheet) ==
    LET column(col) == {sheet.rows[i][col] : i \in 1..Len(sheet.rows)}
        numeric(col) == /\ \E c \in column(col) : ~reads_as_nan(c)
                        /\ \A c \in column(col) : reads_as_nan(c) \/ reads_as_number(c)
        has_nan(col) == \E c \in column(col) : reads_as_nan(c)
        value(cell, col) ==
            IF reads_as_nan(cell) THEN [nan |-> TRUE, text |-> <<>>]
            ELSE IF ~numeric(col) THEN cell
            ELSE IF has_nan(col)
            THEN [nan |-> FALSE, text |-> str_of_int(int_of(cell.text)) \o <<".", "0">>]
            ELSE [nan |-> FALSE, text |-> str_of_int(int_of(cell.text))]
    IN  [kind |-> "xlsx", header |-> sheet.header,
         rows |-> [i \in 1..Len(sheet.rows) |->
                     [col \in DOMAIN sheet.rows[i] |-> value(sheet.rows[i][col], col)]]]

\* the query string of the 'Export to Excel' link of the results page:
\* href="/export" names no search term
export_link_term(page) == <<>>

-----------------------------------------------------------------------------
(* Search, export and reading an export back, one request at a time, in a  *)
(* process started on a workbook of up to MaxExportRows rows.              *)

MaxExportRows == 2

\* a row of a workbook, written in the columns of HFirst
WrittenRow(name, id, recv, status, line, setno) ==
    [col \in {"ASSOCIATE NAME", "ASSOCIATE ID", "RECEIVER'S NAME", "FORM STATUS",
              "LINE NO.", "SET-NO.OF FORM"} |->
        LET t == CASE col = "ASSOCIATE NAME" -> name
                   [] col = "ASSOCIATE ID" -> id
                   [] col = "RECEIVER'S NAME" -> recv
                   [] col = "FORM STATUS" -> status
                   [] col = "LINE NO." -> line
                   [] OTHER -> setno
        IN  [nan |-> t = <<>>, text |-> t]]

ExportRows ==
    { WrittenRow(<<"a", "b">>, <<"1">>, <<"x">>, <<" ", "N", "A", " ">>, <<"0", "1">>,
                 SNF_ \o <<"1">>),
      WrittenRow(<<"b">>, <<"1", "2">>, <<"a", "b">>, <<"o", "k">>, <<"a", "b">>,
                 <<"s", "n", "f", "/", "1">>),
      WrittenRow(<<"a">>, <<"2">>, <<"x">>, <<>>, <<"1">>, SNF_ \o <<"1", "1">>),
      WrittenRow(<<"x">>, <<"5">>, <<"b">>, <<"o", "k">>, <<"3">>, <<"x">>) }

ExportFiles ==
    {read_excel(Xlsx(HFirst, rows)) : rows \in SeqsUpTo(ExportRows, MaxExportRows)}

ExportTerms == {<<"1">>, <<"0", "1">>, <<"a", "b">>, <<"x">>, <<"b", " ", "x">>,
                <<"o", "k">>, SNF_ \o <<"1">>, <<" ", "s", "n", "f", "/", "1">>,
                <<" ">>, <<>>}

(* GET / with a search term *)
SearchPage(r, raw) ==
    /\ data # 0
    /\ SearchRequest(r, raw, "all")

(* GET /export?search=raw *)
ExportRequest(r, raw) ==
    /\ data # 0
    /\ rdr[r].pc = "idle"
    /\ rdr' = [rdr EXCEPT ![r] =
                 [IdleReader EXCEPT !.pc = "done", !.kind = "export", !.raw = raw,
                                    !.resp = export_excel(TheData, raw)]]
    /\ UNCHANGED <<disk, heap, data, authorized, upd, loaded, passed, sent, used>>

(* the 'Export to Excel' link of a results page is followed *)
FollowExportLink(r) ==
    /\ rdr[r].pc = "done"
    /\ rdr[r].kind = "search"
    /\ rdr[r].resp.has_results
    /\ rdr' = [rdr EXCEPT ![r].kind = "link",
                          ![r].raw = export_link_term(rdr[r].resp),
                          ![r].resp = export_excel(TheData, export_link_term(rdr[r].resp))]
    /\ UNCHANGED <<disk, heap, data, authorized, upd, loaded, passed, sent, used>>

(* the downloaded export is put in place of data.xlsx and the process is   *)
(* started again; the reader keeps the response that was saved             *)
RestartOnExport(r) ==
    /\ rdr[r].pc = "done"
    /\ rdr[r].kind = "export"
    /\ rdr[r].resp.status = "200"
    /\ disk' = read_excel(SheetOf(rdr[r].resp.results))
    /\ data' = 0
    /\ heap' = NoLists
    /\ loaded' = NoLoad
    /\ rdr' = [rdr EXCEPT ![r].kind = "saved"]
    /\ UNCHANGED <<authorized, upd, passed, sent, used>>

InitExport ==
    /\ disk \in ExportFiles
    /\ heap = NoLists
    /\ data = 0
    /\ authorized = [s \in Sessions |-> FALSE]
    /\ upd = [s \in Sessions |-> IdleUpdater]
    /\ rdr = [r \in Readers |-> IdleReader]
    /\ loaded = NoLoad
    /\ passed = {}
    /\ sent = [s \in Sessions |-> "none"]
    /\ used = {}

NextExport ==
    \/ Startup
    \/ \E r \in Readers, raw \in ExportTerms : SearchPage(r, raw)
    \/ \E r \in Readers, raw \in ExportTerms : ExportRequest(r, raw)
    \/ \E r \in Readers : FollowExportLink(r)
    \/ \E r \in Readers : RestartOnExport(r)

SpecExport == InitExport /\ [][NextExport]_vars

-----------------------------------------------------------------------------
(* The running process: request threads that interleave.                   *)

\* workbooks of the running system
FileA == Xlsx(HFirst, <<RowFor(HFirst, CHOOSE p \in RowPatterns : p.line = Text(<<"1", "2", "B">>)),
                        RowFor(HFirst, CHOOSE p \in RowPatterns : p.line = Text(<<" ", "3">>))>>)
FileB == Xlsx(HLast, <<RowFor(HLast, CHOOSE p \in RowPatterns : p.line = Blank)>>)
FileC == Xlsx(HLast, <<RowFor(HLast, CHOOSE p \in RowPatterns : p.line = Blank),
                       RowFor(HLast, CHOOSE p \in RowPatterns : p.line = Text(<<" ", "3">>))>>)

\* request bodies of update_data; NoBody is the empty body
NoBody == [kind |-> "empty", header |-> <<>>, rows |-> <<>>]
Uploads == {FileA, FileB, FileC, Corrupt, NoBody}
StartFiles == {Missing, FileA}

Passwords == {"UPDATE_PASSWORD", "wrong"}

SysTerms == {<<"x">>, <<>>}

\* the readers in the middle of a request
Active(r) == rdr[r].pc \notin {"idle", "done"}

\* every reader in the middle of a request has now also seen the list d
Seeing(rd, d) ==
    [r \in Readers |->
        IF Active(r) THEN [rd[r] EXCEPT !.seen = @ \cup {d}] ELSE rd[r]]

\* as check_password, were every password accepted
CheckPasswordAny(password) == TRUE

\* `password == app.config['UPDATE_PASSWORD']`
check_password(password) == password = "UPDATE_PASSWORD"

(* check_update_auth *)
CheckUpdateAuth(s, password) ==
    /\ data # 0
    /\ upd[s].pc \in {"idle", "done"}
    /\ IF check_password(password)
       THEN /\ authorized' = [authorized EXCEPT ![s] = TRUE]
            /\ upd' = [upd EXCEPT ![s] = [IdleUpdater EXCEPT !.pc = "done",
                                              !.resp = "auth: success"]]
       ELSE /\ authorized' = authorized
            /\ upd' = [upd EXCEPT ![s] = [IdleUpdater EXCEPT !.pc = "done",
                                              !.resp = "Incorrect password"]]
    /\ passed' = IF password = "UPDATE_PASSWORD" THEN passed \cup {s} ELSE passed
    /\ used' = IF password = "UPDATE_PASSWORD" THEN used \ {s} ELSE used
    /\ UNCHANGED <<disk, heap, data, rdr, loaded, sent>>

(* The client sends POST /update_data with the session cookie it holds.    *)
(* The session of a request is read from the cookie of the request and     *)
(* written to the client with the response.                                *)
SendUpdate(s) ==
    /\ data # 0
    /\ sent[s] = "none"
    /\ sent' = [sent EXCEPT ![s] = IF authorized[s] THEN "set" ELSE "unset"]
    /\ UNCHANGED <<disk, heap, data, authorized, upd, rdr, loaded, passed, used>>

\* `session.get('update_authorized')`: the flag in the cookie of the request
session_flag(cookie) == cookie = "set"

\* as cookie_after_no_data, had the flag been popped before the body check
CookieClearedAfterNoData(held) == FALSE

\* the cookie the client holds after 'No data received': the session was
\* not changed, the response sets no cookie
cookie_after_no_data(held) == held

(* update_data, up to `session.pop('update_authorized', None)`, for a      *)
(* request that came with the given cookie                                 *)
UpdateHandle(s, body, cookie) ==
    /\ data # 0
    /\ upd[s].pc \in {"idle", "done"}
    /\ IF ~session_flag(cookie)
       THEN /\ upd' = [upd EXCEPT ![s] = [IdleUpdater EXCEPT !.pc = "done",
                                              !.resp = "Unauthorized access"]]
            /\ UNCHANGED <<used, authorized>>
       ELSE IF body = NoBody
       THEN /\ upd' = [upd EXCEPT ![s] = [IdleUpdater EXCEPT !.pc = "done",
                                              !.resp = "No data received"]]
            /\ authorized' = [authorized EXCEPT ![s] = cookie_after_no_data(@)]
            /\ UNCHANGED used
       ELSE /\ upd' = [upd EXCEPT ![s] = [IdleUpdater EXCEPT !.pc = "open",
                                              !.body = body]]
            /\ used' = used \cup {s}
            /\ UNCHANGED authorized
    /\ UNCHANGED <<disk, heap, data, rdr, loaded, passed>>

(* a request that was sent earlier is taken up by the server *)
UpdateReceive(s, body) ==
    /\ sent[s] # "none"
    /\ sent' = [sent EXCEPT ![s] = "none"]
    /\ UpdateHandle(s, body, sent[s])

(* a request is sent and taken up at once, no other request of the session *)
(* being on its way                                                        *)
UpdateBegin(s, body) ==
    /\ sent[s] = "none"
    /\ UNCHANGED sent
    /\ UpdateHandle(s, body, IF authorized[s] THEN "set" ELSE "unset")

\* the cookie the client holds after the response of an update_data that
\* went past session.pop: the session was changed, the response sets it
cookie_after_update(held) == FALSE

(* open('data.xlsx', 'wb') truncates the file *)
UpdateOpen(s) ==
    /\ upd[s].pc = "open"
    /\ disk' = Truncated
    /\ upd' = [upd EXCEPT ![s].pc = "write"]
    /\ UNCHANGED <<heap, data, authorized, rdr, loaded, passed, sent, used>>

(* f.write(excel_data), and the close at the end of the with block *)
UpdateWrite(s) ==
    /\ upd[s].pc = "write"
    /\ disk' = upd[s].body
    /\ upd' = [upd EXCEPT ![s].pc = "load", ![s].body = IdleUpdater.body]
    /\ UNCHANGED <<heap, data, authorized, rdr, loaded, passed, sent, used>>

\* as global_while_loading, had load_data declared `global data`
GlobalBoundWhileLoading(current, new) == new

\* `data = []` at the head of load_data binds a local name: the global keeps
\* its list while the new one is built
global_while_loading(current, new) == current

\* as after_failed_reload, had the except branch fallen back to `data = []`
AfterFailedReloadEmpty(current, new) == new

\* the except branch of update_data does not bind the global
after_failed_reload(current, new) == current

(* load_data up to the row loop: the file is read, the columns are found *)
UpdateLoadRead(s) ==
    /\ upd[s].pc = "load"
    /\ LET result == load_data(disk)
       IN  IF ~result.ok
           THEN /\ data' = after_failed_reload(data, NewList)
                /\ upd' = [upd EXCEPT ![s] = [IdleUpdater EXCEPT !.pc = "done",
                                                  !.resp = "failed"]]
                /\ rdr' = Seeing(rdr, heap[data'])
                /\ heap' = Collect(heap, data', rdr', upd')
                /\ authorized' = [authorized EXCEPT ![s] = cookie_after_update(@)]
           ELSE /\ data' = global_while_loading(data, NewList)
                /\ upd' = [upd EXCEPT ![s].pc = "rows", ![s].list = NewList,
                                      ![s].df = [header |-> disk.header,
                                                 rows |-> disk.rows],
                                      ![s].row = 0, ![s].invalid = <<>>]
                /\ heap' = Collect(heap, data', rdr, upd')
                /\ UNCHANGED <<rdr, authorized>>
    /\ UNCHANGED <<disk, loaded, passed, sent, used>>

(* one turn of `for index, row in df.iterrows()` *)
UpdateLoadRow(s) ==
    /\ upd[s].pc = "rows"
    /\ upd[s].row < Len(upd[s].df.rows)
    /\ LET index == upd[s].row
           row == upd[s].df.rows[index + 1]
           set_no == row_value(row, "set_no", upd[s].df.header)
       IN  IF ~set_no_ok(set_no)
           THEN /\ upd' = [upd EXCEPT ![s].row = index + 1,
                                      ![s].invalid = Append(@, [row |-> row_number(index),
                                                                value |-> set_no])]
                /\ heap' = heap
           ELSE /\ upd' = [upd EXCEPT ![s].row = index + 1]
                /\ heap' = [heap EXCEPT ![upd[s].list] =
                               Append(@, record_of(row, upd[s].df.header))]
    /\ UNCHANGED <<disk, data, authorized, rdr, loaded, passed, sent, used>>

(* `return data` of load_data *)
UpdateLoadReturn(s) ==
    /\ upd[s].pc = "rows"
    /\ upd[s].row = Len(upd[s].df.rows)
    /\ upd' = [upd EXCEPT ![s] = [IdleUpdater EXCEPT !.pc = "assign",
                                                     !.list = upd[s].list]]
    /\ UNCHANGED <<disk, heap, data, authorized, rdr, loaded, passed, sent, used>>

(* `data = load_data('data.xlsx')`: the global is bound to the new list *)
UpdateAssign(s) ==
    /\ upd[s].pc = "assign"
    /\ data' = upd[s].list
    /\ rdr' = Seeing(rdr, heap[upd[s].list])
    /\ upd' = [upd EXCEPT ![s].pc = "git", ![s].list = 0]
    /\ heap' = Collect(heap, data', rdr', upd')
    /\ UNCHANGED <<disk, authorized, loaded, passed, sent, used>>

(* git add / commit / push: the answer is success = true whether or not   *)
(* the push went through                                                   *)
UpdateGit(s) ==
    /\ upd[s].pc = "git"
    /\ upd' = [upd EXCEPT ![s].pc = "done", ![s].resp = "updated"]
    /\ authorized' = [authorized EXCEPT ![s] = cookie_after_update(@)]
    /\ UNCHANGED <<disk, heap, data, rdr, loaded, passed, sent, used>>

\* the page of the outer except branch of search
ErrorPage == [status |-> "200", has_results |-> FALSE, results |-> <<>>,
              search_term |-> <<>>, search_type |-> "all",
              error |-> "An error occurred while processing your request. Please try again.",
              scanned |-> 0]

(* search, up to `if len(data) > 0:` *)
SearchBegin(r, raw, type) ==
    /\ data # 0
    /\ rdr[r].pc \in {"idle", "done"}
    /\ rdr' = [rdr EXCEPT ![r] =
                 [IdleReader EXCEPT !.pc = IF Len(TheData) > 0 THEN "sample" ELSE "check",
                                    !.kind = "search", !.raw = raw, !.type = type,
                                    !.seen = {TheData}]]
    /\ UNCHANGED <<disk, heap, data, authorized, upd, loaded, passed, sent, used>>

(* `data[0]` for the log line: IndexError when the list is empty by now *)
SearchSample(r) ==
    /\ rdr[r].pc = "sample"
    /\ IF Len(TheData) = 0
       THEN rdr' = [rdr EXCEPT ![r].pc = "done", ![r].resp = ErrorPage]
       ELSE rdr' = [rdr EXCEPT ![r].pc = "check"]
    /\ UNCHANGED <<disk, heap, data, authorized, upd, loaded, passed, sent, used>>

(* the forced selector, the validation, `if search_term:` and the start of *)
(* `for rec in data:`, which takes the list the global refers to now       *)
SearchCheck(r) ==
    /\ rdr[r].pc = "check"
    /\ LET search_term == strip(rdr[r].raw)
           search_type == forced_search_type(search_term, rdr[r].type)
           v == IF startswith(upper(search_term), SNF_)
                THEN validate_search_term(search_term)
                ELSE [ok |-> TRUE, msg |-> MsgNone]
       IN  IF ~v.ok
           THEN rdr' = [rdr EXCEPT ![r].pc = "done",
                           ![r].resp = Page(FALSE, <<>>, <<>>, search_type, v.msg, 0)]
           ELSE IF ~term_given(search_term)
           THEN rdr' = [rdr EXCEPT ![r].pc = "done",
                           ![r].resp = Page(FALSE, <<>>, search_term, search_type,
                                            MsgNone, 0)]
           ELSE rdr' = [rdr EXCEPT ![r].pc = "scan", ![r].list = data, ![r].idx = 0,
                                   ![r].results = <<>>]
    /\ UNCHANGED <<disk, heap, data, authorized, upd, loaded, passed, sent, used>>

(* one turn of `for rec in data:` (search) or of the loop of export_excel *)
ScanStep(r) ==
    /\ rdr[r].pc = "scan"
    /\ rdr[r].idx < Len(heap[rdr[r].list])
    /\ LET rec == heap[rdr[r].list][rdr[r].idx + 1]
           search_term == strip(rdr[r].raw)
           match == IF rdr[r].kind = "search"
                    THEN match_record(rec, search_term,
                                      forced_search_type(search_term, rdr[r].type))
                    ELSE export_match(rec, search_term)
       IN  rdr' = [rdr EXCEPT ![r].idx = @ + 1,
                              ![r].results = IF match THEN Append(@, rec) ELSE @]
    /\ UNCHANGED <<disk, heap, data, authorized, upd, loaded, passed, sent, used>>

\* as records_after_sort, had the sort been applied to the list of records
RecordsSortedInPlace(records, results) == sort_results(records)

\* `results.sort(key=get_line_number)` sorts the list `results`, a list of
\* its own made by `results = []`: the list of records is left as it is
records_after_sort(records, results) == records

(* the end of the loop: search sorts and renders, export answers *)
ScanEnd(r) ==
    /\ rdr[r].pc = "scan"
    /\ rdr[r].idx >= Len(heap[rdr[r].list])
    /\ LET search_term == strip(rdr[r].raw)
       IN  rdr' = [rdr EXCEPT ![r].pc = "done", ![r].list = 0, ![r].idx = 0,
                      ![r].results = <<>>,
                      ![r].resp =
                         IF rdr[r].kind = "search"
                         THEN Page(TRUE, sort_results(rdr[r].results), search_term,
                                   forced_search_type(search_term, rdr[r].type),
                                   MsgNone, rdr[r].idx)
                         ELSE IF rdr[r].results = <<>>
                         THEN Export("404", <<>>, search_term, rdr[r].idx)
                         ELSE Export("200", rdr[r].results, search_term, rdr[r].idx)]
    /\ heap' = Collect([heap EXCEPT ![rdr[r].list] =
                            IF rdr[r].kind = "search" /\ rdr[r].results # <<>>
                            THEN records_after_sort(@, rdr[r].results) ELSE @],
                        data, rdr', upd)
    /\ UNCHANGED <<disk, data, authorized, upd, loaded, passed, sent, used>>

(* export_excel, up to the start of `for rec in data:` *)
ExportBegin(r, raw) ==
    /\ data # 0
    /\ rdr[r].pc \in {"idle", "done"}
    /\ IF strip(raw) = <<>>
       THEN rdr' = [rdr EXCEPT ![r] =
                       [IdleReader EXCEPT !.pc = "done", !.kind = "export", !.raw = raw,
                                          !.resp = Export("400", <<>>, <<>>, 0)]]
       ELSE rdr' = [rdr EXCEPT ![r] =
                       [IdleReader EXCEPT !.pc = "scan", !.kind = "export", !.raw = raw,
                                          !.list = data, !.seen = {TheData}]]
    /\ UNCHANGED <<disk, heap, data, authorized, upd, loaded, passed, sent, used>>

Init ==
    /\ disk \in StartFiles
    /\ heap = NoLists
    /\ data = 0
    /\ authorized = [s \in Sessions |-> FALSE]
    /\ upd = [s \in Sessions |-> IdleUpdater]
    /\ rdr = [r \in Readers |-> IdleReader]
    /\ loaded = NoLoad
    /\ passed = {}
    /\ sent = [s \in Sessions |-> "none"]
    /\ used = {}

(* The update requests of two client sessions, interleaved. *)
NextUpdate ==
    \/ Startup
    \/ \E s \in Sessions, password \in Passwords : CheckUpdateAuth(s, password)
    \/ \E s \in Sessions, body \in Uploads : UpdateBegin(s, body)
    \/ \E s \in Sessions : UpdateOpen(s)
    \/ \E s \in Sessions : UpdateWrite(s)
    \/ \E s \in Sessions : UpdateLoadRead(s)
    \/ \E s \in Sessions : UpdateLoadRow(s)
    \/ \E s \in Sessions : UpdateLoadReturn(s)
    \/ \E s \in Sessions : UpdateAssign(s)
    \/ \E s \in Sessions : UpdateGit(s)

SpecUpdate == Init /\ [][NextUpdate]_vars

(* Search and export requests, interleaved with the update requests of one *)
(* client session.                                                         *)
Uploader == CHOOSE s \in Sessions : TRUE

NextRead ==
    \/ Startup
    \/ CheckUpdateAuth(Uploader, "UPDATE_PASSWORD")
    \/ \E body \in Uploads \ {NoBody} : UpdateBegin(Uploader, body)
    \/ UpdateOpen(Uploader)
    \/ UpdateWrite(Uploader)
    \/ UpdateLoadRead(Uploader)
    \/ UpdateLoadRow(Uploader)
    \/ UpdateLoadReturn(Uploader)
    \/ UpdateAssign(Uploader)
    \/ UpdateGit(Uploader)
    \/ \E r \in Readers, raw \in SysTerms : SearchBegin(r, raw, "all")
    \/ \E r \in Readers : SearchSample(r)
    \/ \E r \in Readers : SearchCheck(r)
    \/ \E r \in Readers : ScanStep(r)
    \/ \E r \in Readers : ScanEnd(r)
    \/ \E r \in Readers, raw \in SysTerms : ExportBegin(r, raw)

SpecRead == Init /\ [][NextRead]_vars

(* The requests of one client session, which may send an update_data       *)
(* request while an earlier one of its own is still being served.          *)
NextSession ==
    \/ Startup
    \/ \E password \in Passwords : CheckUpdateAuth(Uploader, password)
    \/ SendUpdate(Uploader)
    \/ \E body \in Uploads : UpdateReceive(Uploader, body)
    \/ \E body \in Uploads : UpdateBegin(Uploader, body)
    \/ UpdateOpen(Uploader)
    \/ UpdateWrite(Uploader)
    \/ UpdateLoadRead(Uploader)
    \/ UpdateLoadRow(Uploader)
    \/ UpdateLoadReturn(Uploader)
    \/ UpdateAssign(Uploader)
    \/ UpdateGit(Uploader)

SpecSession == Init /\ [][NextSession]_vars


-----------------------------------------------------------------------------
(* Vocabulary of the claims about search.                                  *)

\* number of occurrences of x in the sequence q
Count(x, q) == Cardinality({i \in 1..Len(q) : q[i] = x})

\* the two sequences hold the same records the same number of times
SameRecords(p, q) ==
    \A x \in {p[i] : i \in 1..Len(p)} \cup {q[i] : i \in 1..Len(q)} :
        Count(x, p) = Count(x, q)

IsAsciiDigit(c) == c \in {"0", "1", "2", "3", "4", "5", "6", "7", "8", "9"}

SameLetter(c, d) ==
    \/ c = d
    \/ {c, d} \in {{"S", "s"}, {"N", "n"}, {"F", "f"}, {"A", "a"}, {"B", "b"},
                    {"C", "c"}, {"X", "x"}}

\* a and b are equal up to the case of their letters
EqualNoCase(a, b) == Len(a) = Len(b) /\ \A i \in 1..Len(a) : SameLetter(a[i], b[i])

\* sub occurs in s up to the case of letters
OccursNoCase(sub, s) ==
    \E i \in 0..(Len(s) - Len(sub)) : EqualNoCase(SubSeq(s, i + 1, i + Len(sub)), sub)

BeginsWithSNF(t) == Len(t) >= 4 /\ EqualNoCase(SubSeq(t, 1, 4), SNF_)

\* 'SNF' + '/' + a non-empty run of ASCII digits
IsIdentifier(t) ==
    /\ Len(t) > 4
    /\ BeginsWithSNF(t)
    /\ \A i \in 5..Len(t) : IsAsciiDigit(t[i])

\* the term of a request: what the client sent, trimmed
TermOf(r) == strip(rdr[r].raw)

SearchDone(r) == rdr[r].pc = "done" /\ rdr[r].kind = "search"

\* the records of q at the positions in I, in order
RECURSIVE AtPositions(_, _, _)
AtPositions(q, I, i) ==
    IF i > Len(q) THEN <<>>
    ELSE (IF i \in I THEN <<q[i]>> ELSE <<>>) \o AtPositions(q, I, i + 1)

-----------------------------------------------------------------------------
(* C1: a term that begins with SNF/ in any case but is not SNF/ followed   *)
(* by a non-empty run of ASCII digits gets a validation error, no result   *)
(* list, and no record is scanned.                                         *)
C1_MalformedIdentifierRejected ==
    \A r \in Readers :
        (SearchDone(r) /\ BeginsWithSNF(TermOf(r)) /\ ~IsIdentifier(TermOf(r)))
            => /\ ~rdr[r].resp.has_results
               /\ rdr[r].resp.error # MsgNone
               /\ rdr[r].resp.scanned = 0

(* C2: for a valid term SNF/<digits> the result is, whatever selector was  *)
(* requested, exactly the records whose set_no equals the term up to case. *)
C2_IdentifierShortcut ==
    \A r \in Readers :
        (SearchDone(r) /\ IsIdentifier(TermOf(r)))
            => /\ rdr[r].resp.has_results
               /\ SameRecords(rdr[r].resp.results,
                              AtPositions(TheData,
                                  {i \in 1..Len(TheData) :
                                      EqualNoCase(TheData[i].set_no, TermOf(r))}, 1))

C2_Witness ==
    \E r \in Readers :
        /\ SearchDone(r) /\ IsIdentifier(TermOf(r))
        /\ rdr[r].type = "associate_name"
        /\ \E i \in 1..Len(rdr[r].resp.results) :
              /\ rdr[r].resp.results[i].set_no # TermOf(r)
              /\ EqualNoCase(rdr[r].resp.results[i].set_no, TermOf(r))
        /\ Len(rdr[r].resp.results) < Len(TheData)

\* a token passes a record: it occurs, up to case, in one of the four text
\* fields, or it is equal to line_no
TokenPasses(tok, rec) ==
    \/ OccursNoCase(tok, rec.associate_name)
    \/ OccursNoCase(tok, rec.associate_id)
    \/ OccursNoCase(tok, rec.receiver_name)
    \/ OccursNoCase(tok, rec.set_no)
    \/ tok = rec.line_no

AllTokensPass(term, rec) ==
    LET toks == split_ws(term) IN \A k \in 1..Len(toks) : TokenPasses(toks[k], rec)

(* C3: under selector 'all', for a term that does not begin with SNF/, a   *)
(* record is in the result iff every whitespace separated token of the     *)
(* term occurs (up to case) in associate_name, associate_id, receiver_name *)
(* or set_no, or is equal to line_no; one token or several alike.          *)
C3_AllSelectorEveryToken ==
    \A r \in Readers :
        (SearchDone(r) /\ rdr[r].type = "all" /\ TermOf(r) # <<>>
           /\ ~BeginsWithSNF(TermOf(r)))
            => /\ rdr[r].resp.has_results
               /\ SameRecords(rdr[r].resp.results,
                              AtPositions(TheData,
                                  {i \in 1..Len(TheData) :
                                      AllTokensPass(TermOf(r), TheData[i])}, 1))


-----------------------------------------------------------------------------
(* Vocabulary of the claim about the order of the results.                 *)

HasDigit(rec) == \E i \in 1..Len(rec.line_no) : IsAsciiDigit(rec.line_no[i])

\* the integer formed from the digits of line_no
NumberOf(rec) == int_of(filter_digits(rec.line_no))

\* a is strictly before b in the order of the claim
KeyBefore(a, b) == HasDigit(a) /\ (~HasDigit(b) \/ NumberOf(a) < NumberOf(b))

SameKey(a, b) == ~KeyBefore(a, b) /\ ~KeyBefore(b, a)

\* the records of q that have the key of x, in order
WithKeyOf(q, x) == AtPositions(q, {i \in 1..Len(q) : SameKey(q[i], x)}, 1)

\* the records of the dataset in the result of the request of r
MatchesOf(r) ==
    AtPositions(TheData,
        {i \in 1..Len(TheData) :
            IF BeginsWithSNF(TermOf(r))
            THEN EqualNoCase(TheData[i].set_no, TermOf(r))
            ELSE AllTokensPass(TermOf(r), TheData[i])}, 1)

(* C4: the result list is the matching records in ascending order of the   *)
(* integer formed from the digits of line_no, records without a digit      *)
(* last, records of equal key (and those without digits) in dataset order. *)
C4_ResultsSortedStable ==
    \A r \in Readers :
        (SearchDone(r) /\ rdr[r].resp.has_results)
            => LET res == rdr[r].resp.results
               IN  /\ SameRecords(res, MatchesOf(r))
                   /\ \A i, j \in 1..Len(res) : i < j => ~KeyBefore(res[j], res[i])
                   /\ \A i \in 1..Len(res) :
                         WithKeyOf(res, res[i]) = WithKeyOf(MatchesOf(r), res[i])

C4_Witness ==
    \E r \in Readers :
        /\ SearchDone(r)
        /\ Len(TheData) = 4
        /\ [i \in 1..4 |-> TheData[i].line_no]
              = <<<<"1", "2", "B">>, <<"3">>, <<"a", "b", "c">>, <<"1">>>>
        /\ [i \in 1..Len(rdr[r].resp.results) |-> rdr[r].resp.results[i].line_no]
              = <<<<"1">>, <<"3">>, <<"1", "2", "B">>, <<"a", "b", "c">>>>


-----------------------------------------------------------------------------
(* Vocabulary of the claims about load_data.                               *)

IsAlias(col, f) == \E k \in 1..Len(column_mapping(f)) : column_mapping(f)[k] = col

\* every canonical field has an alias among the columns
ColumnsResolve(header) ==
    \A f \in Columns(Fields) : \E c \in Columns(header) : IsAlias(c, f)

\* the column of field f: the alias present in the header that comes first
\* in the alias list of f
ColumnOf(f, header) ==
    LET names == column_mapping(f)
        k == CHOOSE k \in 1..Len(names) :
                /\ names[k] \in Columns(header)
                /\ \A j \in 1..(k - 1) : names[j] \notin Columns(header)
    IN  names[k]

Trimmed(cell) == IF cell.nan THEN <<>> ELSE strip(cell.text)

FieldOf(row, f, header) == Trimmed(row[ColumnOf(f, header)])

\* the data row is kept: its trimmed set_no begins with SNF/ in some case
Kept(row, header) == BeginsWithSNF(FieldOf(row, "set_no", header))

RecordOfRow(row, header) ==
    Rec(FieldOf(row, "associate_name", header), FieldOf(row, "associate_id", header),
        FieldOf(row, "receiver_name", header), FieldOf(row, "form_status", header),
        FieldOf(row, "line_no", header), FieldOf(row, "set_no", header))

\* the kept rows of the workbook as records, in row order
KeptRecords(file) ==
    LET recs == [i \in 1..Len(file.rows) |-> RecordOfRow(file.rows[i], file.header)]
    IN  AtPositions(recs, {i \in 1..Len(file.rows) : Kept(file.rows[i], file.header)}, 1)

\* positions (from 1) of the data rows that are not kept
RejectedPositions(file) ==
    {i \in 1..Len(file.rows) : ~Kept(file.rows[i], file.header)}

(* C5: for a source whose columns resolve, load_data returns exactly the   *)
(* rows whose trimmed set_no begins with SNF/ (any case), once each, in    *)
(* row order, and records every other row as a reject.                     *)
C5_LoadKeepsExactlySnfRows ==
    (loaded.called /\ disk.kind = "xlsx" /\ ColumnsResolve(disk.header))
        => /\ loaded.ok
           /\ loaded.data = KeptRecords(disk)
           /\ Len(loaded.invalid_rows) = Cardinality(RejectedPositions(disk))

\* the same, for the loads that return
C5_WhenLoadReturns ==
    (loaded.called /\ loaded.ok)
        => /\ loaded.data = KeptRecords(disk)
           /\ Len(loaded.invalid_rows) = Cardinality(RejectedPositions(disk))

(* C6: a rejected row is recorded with its position among the data rows,   *)
(* counted from 1 at the first row after the header.                       *)
C6_RejectNumberedFromOne ==
    (loaded.called /\ loaded.ok)
        => {loaded.invalid_rows[k].row : k \in 1..Len(loaded.invalid_rows)}
              = RejectedPositions(disk)

(* C6 as amended: a rejected row is recorded with its row number in the    *)
(* sheet, the header being row 1: its position among the data rows plus    *)
(* one; the rejects are recorded in row order.                             *)
C6_RejectNumberedBySheetRow ==
    (loaded.called /\ loaded.ok)
        => /\ {loaded.invalid_rows[k].row : k \in 1..Len(loaded.invalid_rows)}
                 = {i + 1 : i \in RejectedPositions(disk)}
           /\ \A j, k \in 1..Len(loaded.invalid_rows) :
                 j < k => loaded.invalid_rows[j].row < loaded.invalid_rows[k].row

C6_Witness ==
    /\ loaded.called /\ loaded.ok
    /\ Len(disk.rows) = 2
    /\ RejectedPositions(disk) = {1}
    /\ Len(loaded.invalid_rows) = 1
    /\ loaded.invalid_rows[1].row = 2

(* C7: load_data fails with DataError, and returns no records, when the    *)
(* file does not exist, cannot be read, has a header but no data row, or   *)
(* lacks a column for some canonical field; in the last case the error     *)
(* names a missing field and the columns present.                          *)
C7_LoadFails ==
    loaded.called =>
        /\ (disk.kind # "xlsx" \/ Len(disk.rows) = 0 \/ ~ColumnsResolve(disk.header))
              => (~loaded.ok /\ loaded.data = <<>>)
        /\ (disk.kind = "xlsx" /\ ~ColumnsResolve(disk.header))
              => /\ loaded.error = "Could not find column"
                 /\ loaded.field \in Columns(Fields)
                 /\ \A c \in Columns(disk.header) : ~IsAlias(c, loaded.field)
                 /\ loaded.columns = disk.header

\* the same without the case of a header with no data row
C7_LoadFailsOtherCases ==
    loaded.called =>
        /\ (disk.kind # "xlsx" \/ ~ColumnsResolve(disk.header))
              => (~loaded.ok /\ loaded.data = <<>>)
        /\ (disk.kind = "xlsx" /\ ~ColumnsResolve(disk.header))
              => /\ loaded.error = "Could not find column"
                 /\ loaded.field \in Columns(Fields)
                 /\ \A c \in Columns(disk.header) : ~IsAlias(c, loaded.field)
                 /\ loaded.columns = disk.header


-----------------------------------------------------------------------------
(* Vocabulary of the claims about failed loads and reloads.                *)

\* this step is the failing load of process start
FailedStartup == data = 0 /\ data' # 0 /\ ~loaded'.ok

\* this step is the failing load_data of the update request of session s
FailedReload(s) == upd[s].pc = "load" /\ upd'[s].pc = "done"

(* C8: whenever a load fails, at process start or in update_data, the      *)
(* process goes on with an empty in-memory dataset.                        *)
C8_FailedLoadLeavesEmptyDataset ==
    [][(FailedStartup \/ \E s \in Sessions : FailedReload(s)) => TheData' = <<>>]_vars

(* C8 as amended: a failed load at process start leaves an empty dataset;  *)
(* a failed load in update_data leaves the global bound to the list it was *)
(* bound to, unchanged, and the request is answered as failed.             *)
C8_FailedLoadEmptyAtStartElseKept ==
    [][/\ FailedStartup => TheData' = <<>>
       /\ \A s \in Sessions :
             FailedReload(s) => /\ data' = data
                                /\ TheData' = TheData
                                /\ upd'[s].resp = "failed"]_vars

C8_Witness ==
    \E s \in Sessions :
        /\ upd[s].pc = "done" /\ upd[s].resp = "failed"
        /\ TheData # <<>>
        /\ disk.kind = "corrupt"

-----------------------------------------------------------------------------
(* Vocabulary of the claims about requests that overlap a reload.          *)

\* the answer of the finished request of r is the answer computed from the
\* whole list d
AnswerFrom(r, d) ==
    IF rdr[r].kind = "search"
    THEN rdr[r].resp.results = search(d, rdr[r].raw, rdr[r].type).results
    ELSE /\ rdr[r].resp.results = export_excel(d, rdr[r].raw).results
         /\ rdr[r].resp.status = export_excel(d, rdr[r].raw).status

\* the request of r ended with an answer computed from records
Answered(r) ==
    /\ rdr[r].pc = "done"
    /\ \/ rdr[r].kind = "search" /\ rdr[r].resp.has_results
       \/ rdr[r].kind = "export" /\ rdr[r].resp.status \in {"200", "404"}

\* every answer is computed from one of the lists the global was bound to
\* while the request ran
AnswersFromOneList ==
    \A r \in Readers : Answered(r) => \E d \in rdr[r].seen : AnswerFrom(r, d)

\* a step changes the global only by binding it to the list a load_data has
\* returned, and changes no list that the global or a loop refers to
ReloadSwapsReference ==
    /\ (data # 0 /\ data' # data)
          => \E s \in Sessions : /\ upd[s].pc = "assign"
                                 /\ data' = upd[s].list
                                 /\ heap'[data'] = heap[data']
    /\ (data # 0 /\ data' = data) => heap'[data] = heap[data]
    /\ \A r \in Readers :
          (rdr[r].list # 0 /\ rdr'[r].list = rdr[r].list)
             => heap'[rdr[r].list] = heap[rdr[r].list]

(* C9: a search or export that overlaps a reload computes its answer from  *)
(* one complete list, the one bound before the reload or the one bound by  *)
(* it; the reload binds the global by one assignment and mutates no list   *)
(* in use.                                                                 *)
C9_ReadersSeeOneCompleteList ==
    []AnswersFromOneList /\ [][ReloadSwapsReference]_vars

C9_Witness ==
    \E r \in Readers :
        /\ Answered(r)
        /\ Cardinality(rdr[r].seen) >= 2
        /\ rdr[r].resp.results # <<>>
        /\ TheData # <<>>
        /\ ~AnswerFrom(r, TheData)

(* C10: at most one update_data request is between its write of data.xlsx  *)
(* and its assignment of the global.                                       *)
C10_OneReloadAtATime ==
    Cardinality({s \in Sessions : upd[s].pc \in {"write", "load", "rows", "assign"}}) <= 1

-----------------------------------------------------------------------------
(* Claims about the password gate of update_data.                          *)

\* the session s is inside an update_data request that passed the session check
Updating(s) == upd[s].pc \in {"open", "write", "load", "rows", "assign", "git"}

\* the step is the answer to an update_data request of the session s
UpdateAnswered(s) ==
    /\ upd[s].pc \in {"idle", "done"}
    /\ upd'[s] # upd[s]
    /\ upd'[s].pc = "done"
    /\ upd'[s].resp \notin {"auth: success", "Incorrect password"}

\* the step changes data.xlsx or the in-memory dataset
FileOrDatasetChanges == disk' # disk \/ data' # data \/ TheData' # TheData

\* only a session that has sent the correct password is authorised or inside
\* an accepted update
OnlyPassedSessionsUpdate ==
    \A s \in Sessions : (authorized[s] \/ Updating(s)) => s \in passed

\* after startup the file and the dataset change only in a step of an
\* accepted update; a session that never sent the correct password is
\* answered 'Unauthorized access', the file and the dataset left as they were
GateOnEveryStep ==
    /\ (data # 0 /\ FileOrDatasetChanges)
          => \E s \in passed : Updating(s) /\ upd'[s] # upd[s]
    /\ \A s \in Sessions \ passed :
          UpdateAnswered(s) => /\ upd'[s].resp = "Unauthorized access"
                               /\ ~FileOrDatasetChanges

\* C11: data.xlsx and the in-memory dataset are changed by update_data only
\* for a session that has passed check_update_auth with the correct password;
\* a session that never sent the correct password is answered 'Unauthorized
\* access' and both are left unchanged.
C11_UpdateOnlyAfterPassword ==
    []OnlyPassedSessionsUpdate /\ [][GateOnEveryStep]_vars

\* one session has tried a wrong password and been refused by update_data,
\* while the other, having passed, has replaced the file and the dataset
C11_Witness ==
    /\ upd["s1"].pc = "done" /\ upd["s1"].resp = "Unauthorized access"
    /\ "s1" \notin passed
    /\ upd["s2"].pc = "done" /\ upd["s2"].resp = "updated"
    /\ disk = FileC
    /\ loaded.called /\ TheData # module_level_data(loaded)

-----------------------------------------------------------------------------
(* Claims about the export.                                                *)

\* the records of the sequence q, as a set
RecordSet(q) == {q[i] : i \in 1..Len(q)}

\* the step follows the export link of a results page that lists records
LinkFollowed(r) ==
    /\ rdr[r].kind = "search" /\ rdr[r].pc = "done"
    /\ rdr[r].resp.has_results /\ rdr[r].resp.results # <<>>
    /\ rdr'[r].kind = "link"

\* C12: following the 'Export to Excel' link of a results page shown for the
\* term t issues an export request for t and yields the records of that
\* search, not an error.
C12_ExportLinkExportsDisplayed ==
    [][\A r \in Readers :
          LinkFollowed(r) =>
             /\ strip(rdr'[r].raw) = rdr[r].resp.search_term
             /\ rdr'[r].resp.status = "200"
             /\ RecordSet(rdr'[r].resp.results) = RecordSet(rdr[r].resp.results)]_vars

\* the reader r has its answer to a request of the given kind with a term
\* that is not empty after trimming
Requested(r, kind) ==
    /\ rdr[r].kind = kind /\ rdr[r].pc = "done"
    /\ data # 0
    /\ strip(rdr[r].raw) # <<>>

\* C13: for every dataset and every non-empty term the records selected by
\* the export are the records the search returns for the term under 'all'.
C13_ExportSelectsWhatSearchAllReturns ==
    \A r \in Readers :
       /\ Requested(r, "export")
             => RecordSet(rdr[r].resp.results)
                  = RecordSet(search(TheData, rdr[r].raw, "all").results)
       /\ Requested(r, "search")
             => RecordSet(rdr[r].resp.results)
                  = RecordSet(export_excel(TheData, rdr[r].raw).results)

\* the export that was saved has been read back by load_data
ReadBack(r) == rdr[r].kind = "saved" /\ loaded.called

\* C14: writing a non-empty result set out as the export does and loading
\* that sheet with load_data yields the same records field for field, none
\* rejected.
C14_ExportRoundTrip ==
    \A r \in Readers :
       ReadBack(r) => /\ loaded.ok
                      /\ loaded.data = rdr[r].resp.results
                      /\ loaded.invalid_rows = <<>>

-----------------------------------------------------------------------------
(* Claims about the set_no and line_no selectors.                          *)

\* the search of r ran with the given selector and rendered a result list
SearchedBy(r, selector) ==
    /\ SearchDone(r)
    /\ rdr[r].type = selector
    /\ rdr[r].resp.has_results

\* the records of the dataset whose field f is one of the texts in S, in
\* dataset order
RecordsWith(f, S) ==
    AtPositions(TheData, {i \in 1..Len(TheData) : TheData[i][f] \in S}, 1)

\* the set_no values of the dataset that equal t up to case
SetNosEqualTo(t) ==
    {TheData[i].set_no : i \in {j \in 1..Len(TheData) : EqualNoCase(TheData[j].set_no, t)}}

\* C15: under selector set_no a record is in the result iff its set_no equals
\* the whole term up to case; a set_no that only contains the term is not a
\* match ('SNF/1' does not return a record whose set_no is 'SNF/11').
C15_SetNoWholeTermNoCase ==
    \A r \in Readers :
        SearchedBy(r, "set_no")
            => SameRecords(rdr[r].resp.results,
                           RecordsWith("set_no", SetNosEqualTo(TermOf(r))))

\* a set_no search for SNF/1 over a dataset that also holds SNF/11 (and not
\* only records equal to the term) returns the records equal up to case only
C15_Witness ==
    \E r \in Readers :
        /\ SearchedBy(r, "set_no")
        /\ TermOf(r) = SNF_ \o <<"1">>
        /\ \E i \in 1..Len(TheData) : TheData[i].set_no = SNF_ \o <<"1", "1">>
        /\ \E i \in 1..Len(rdr[r].resp.results) :
              rdr[r].resp.results[i].set_no = <<"s", "n", "f", "/", "1">>
        /\ \A i \in 1..Len(rdr[r].resp.results) :
              rdr[r].resp.results[i].set_no # SNF_ \o <<"1", "1">>

\* C16: under selector line_no a record is in the result iff its line_no is
\* literally equal to the term exactly as the request supplied it, untrimmed
\* (a term with leading or trailing spaces does not match).
C16_LineNoEqualsTermAsSupplied ==
    \A r \in Readers :
        (SearchedBy(r, "line_no") /\ ~BeginsWithSNF(TermOf(r)))
            => SameRecords(rdr[r].resp.results, RecordsWith("line_no", {rdr[r].raw}))

\* C16 as the code has it: under selector line_no, for a term that does not
\* begin with SNF/, a record is in the result iff its line_no is literally
\* (case-sensitively, without numeric coercion) equal to the term after the
\* surrounding whitespace of the request parameter has been trimmed.
C16_LineNoEqualsTrimmedTerm ==
    \A r \in Readers :
        (SearchedBy(r, "line_no") /\ ~BeginsWithSNF(TermOf(r)))
            => SameRecords(rdr[r].resp.results, RecordsWith("line_no", {TermOf(r)}))

\* a line_no search whose term came with spaces around it found its record
C16_Witness ==
    \E r \in Readers :
        /\ SearchedBy(r, "line_no")
        /\ rdr[r].raw = <<" ", "1", "2", "B", " ">>
        /\ rdr[r].resp.results # <<>>
        /\ \A i \in 1..Len(rdr[r].resp.results) :
              rdr[r].resp.results[i].line_no = <<"1", "2", "B">>
        /\ Len(rdr[r].resp.results) < Len(TheData)

-----------------------------------------------------------------------------
(* Claim about the choice among several aliases of one field.              *)

\* the header holds more than one alias of some canonical field
SeveralAliases(header) ==
    \E f \in Columns(Fields) : \E c, d \in Columns(header) :
        c # d /\ IsAlias(c, f) /\ IsAlias(d, f)

\* the header holds the canonical name of a field next to an alias that
\* comes before it in the alias list
CanonicalBehindAlias(header) ==
    \E f \in Columns(Fields) : f \in Columns(header) /\ ColumnOf(f, header) # f

\* every record load_data returned has each field from the column of the
\* first alias present, for the kept rows in row order
BoundToFirstAlias ==
    LET kept == {i \in 1..Len(disk.rows) :
                    BeginsWithSNF(Trimmed(disk.rows[i][ColumnOf("set_no", disk.header)]))}
        rows == AtPositions(disk.rows, kept, 1)
    IN  /\ loaded.ok
        /\ Len(loaded.data) = Len(rows)
        /\ \A k \in 1..Len(rows) : \A f \in Columns(Fields) :
              loaded.data[k][f] = Trimmed(rows[k][ColumnOf(f, disk.header)])

\* C17: load_data binds each canonical field to the first alias of its alias
\* list that is in the header, also when the header holds several aliases of
\* the field, and takes the field's values from that column only.
C17_FirstAliasOfSeveral ==
    (loaded.called /\ disk.kind = "xlsx" /\ ColumnsResolve(disk.header)
       /\ SeveralAliases(disk.header))
        => BoundToFirstAlias

\* the same for the headers in which no canonical name stands behind an
\* alias of its field
C17_FirstAliasUnlessCanonicalBehind ==
    (loaded.called /\ disk.kind = "xlsx" /\ ColumnsResolve(disk.header)
       /\ SeveralAliases(disk.header) /\ ~CanonicalBehindAlias(disk.header))
        => BoundToFirstAlias

-----------------------------------------------------------------------------
(* Claim about the completion of a search.                                 *)

\* the term is not empty and, when it begins with SNF/, passes validation
WellFormedTerm(t) ==
    /\ t # <<>>
    /\ BeginsWithSNF(t) => validate_search_term(t).ok

\* the answer is a page with a result list and no error
CompletedWithList(r) ==
    /\ rdr[r].resp.has_results
    /\ rdr[r].resp.error = MsgNone

\* C18: for every dataset, every non-empty term that passes validation and
\* every selector value, the search completes with a result list and no
\* error.
C18_SearchCompletes ==
    \A r \in Readers :
        (SearchDone(r) /\ WellFormedTerm(TermOf(r))) => CompletedWithList(r)

\* the same for a search during which the global was bound to one list only
\* (no reload replaced the dataset while the request ran)
C18_SearchCompletesWithoutReload ==
    \A r \in Readers :
        (SearchDone(r) /\ WellFormedTerm(TermOf(r)) /\ Cardinality(rdr[r].seen) <= 1)
            => CompletedWithList(r)

-----------------------------------------------------------------------------
(* Claim about what may change the in-memory record sequence.              *)

\* the step is the module-level load, or the assignment of update_data
WholesaleReplacement ==
    \/ data = 0 /\ data' # 0
    \/ \E s \in Sessions : upd[s].pc = "assign" /\ upd'[s].pc = "git"

\* the step leaves the record sequence as it is: the global refers to the
\* same list, and the list has the same records in the same order
DatasetKept == data' = data /\ TheData' = TheData

\* C19: search, export and check_update_auth requests leave the in-memory
\* record sequence unchanged in length, order and field values; it changes
\* only by wholesale replacement (the assignment of update_data, and the
\* load at process start).
C19_OnlyReplacementChangesDataset ==
    [][DatasetKept \/ WholesaleReplacement]_vars

\* a search has rendered two records in the order of their line numbers,
\* which is not their order in the dataset, and the dataset is as loaded
C19_Witness ==
    \E r \in Readers :
        /\ SearchDone(r) /\ rdr[r].resp.has_results
        /\ Len(TheData) = 2
        /\ rdr[r].resp.results = <<TheData[2], TheData[1]>>
        /\ TheData[1] # TheData[2]
        /\ TheData = loaded.data

-----------------------------------------------------------------------------
(* Claim about the empty term.                                             *)

\* C20: when the term is empty after trimming, no record is scanned and the
\* response carries no result list at all: neither the full dataset nor an
\* empty list.
C20_EmptyTermNoResultList ==
    \A r \in Readers :
        (SearchDone(r) /\ TermOf(r) = <<>>)
            => /\ ~rdr[r].resp.has_results
               /\ rdr[r].resp.results = <<>>
               /\ rdr[r].resp.scanned = 0
               /\ rdr[r].resp.error = MsgNone

\* a term of one space was searched for in a dataset that has records
C20_Witness ==
    \E r \in Readers :
        /\ SearchDone(r)
        /\ rdr[r].raw = <<" ">>
        /\ TheData # <<>>
        /\ ~rdr[r].resp.has_results

-----------------------------------------------------------------------------
(* Claim about the records of the in-memory dataset.                       *)

\* v is a text: a string of characters
IsText(v) == DOMAIN v = 1..Len(v) /\ \A k \in 1..Len(v) : v[k] \in STRING

\* the record has the six fields, each a text, and an SNF/ set_no
WellFormedRecord(rec) ==
    /\ DOMAIN rec = Columns(Fields)
    /\ \A f \in Columns(Fields) : IsText(rec[f])
    /\ BeginsWithSNF(rec.set_no)

\* C21: in every reachable state, after startup and after any sequence of
\* successful or failed update_data requests, every record of the in-memory
\* dataset has all six fields as strings and a set_no that begins with SNF/
\* in some case.
C21_DatasetRecordsWellFormed ==
    \A i \in 1..Len(TheData) : WellFormedRecord(TheData[i])

\* the dataset holds the one record of an upload that followed a failed
\* upload, its other row having been rejected
C21_Witness ==
    /\ disk = FileC
    /\ Len(TheData) = 1
    /\ \E s \in Sessions : upd[s].pc = "done" /\ upd[s].resp = "failed"
    /\ \E s \in Sessions : upd[s].pc = "done" /\ upd[s].resp = "updated"

-----------------------------------------------------------------------------
(* Claims about the use of the authorisation.                              *)

\* the step is the server taking up an update_data request of session s
UpdateTakenUp(s) ==
    /\ upd[s].pc \in {"idle", "done"}
    /\ \/ upd'[s].pc = "open"
       \/ UpdateAnswered(s)
       \/ sent[s] # "none" /\ sent'[s] = "none"

\* C22: authorisation is single-use: once update_data has accepted an
\* authorised request with a non-empty body, a further update_data of the
\* session without a new successful check_update_auth is rejected as
\* unauthorised and changes neither the file nor the dataset, whether the
\* first update succeeded or failed.
C22_AuthorisationSingleUse ==
    [][\A s \in used :
          UpdateTakenUp(s) => /\ upd'[s].pc = "done"
                              /\ upd'[s].resp = "Unauthorized access"
                              /\ ~FileOrDatasetChanges]_vars

-----------------------------------------------------------------------------
(* Claim about an update whose load fails.                                 *)

\* the step belongs to the update_data request of session s and is not its
\* assignment of the global
StepBeforeAssignment(s) == upd'[s] # upd[s] /\ upd[s].pc # "assign"

\* C23: if the load performed by update_data fails, the in-memory dataset is
\* exactly the one in place before the request (no step of the request up to
\* and including the failing load changes it) and the response reports
\* success = false; a search after it is answered from that same dataset.
C23_FailedUpdateKeepsDataset ==
    [][\A s \in Sessions :
          /\ StepBeforeAssignment(s) => DatasetKept
          /\ FailedReload(s) => /\ upd'[s].pc = "done"
                                /\ upd'[s].resp = "failed"
                                /\ disk' = disk]_vars

\* after an upload that could not be read was answered as failed, a search
\* that ran wholly on the dataset loaded at startup returned records
C23_Witness ==
    \E r \in Readers :
        /\ upd[Uploader].pc = "done" /\ upd[Uploader].resp = "failed"
        /\ disk.kind = "corrupt"
        /\ TheData = loaded.data /\ TheData # <<>>
        /\ SearchDone(r) /\ rdr[r].resp.results # <<>>
        /\ rdr[r].seen = {TheData}
        /\ AnswerFrom(r, TheData)

-----------------------------------------------------------------------------
(* Claim about the agreement of the dataset with the file.                 *)

\* no update_data request is between its acceptance and its answer
NoUpdateInProgress == \A s \in Sessions : ~Updating(s)

\* the records a load of the file now on disk gives (none when it fails)
RecordsOnDisk == module_level_data(load_data(disk))

\* C24: whenever no update_data request is in progress, the in-memory dataset
\* equals what load_data returns for the data.xlsx on disk, after any
\* sequence of update requests, overlapping ones and failing ones included.
C24_DatasetAgreesWithFile ==
    (data # 0 /\ NoUpdateInProgress) => TheData = RecordsOnDisk

\* the same for the states whose file can be loaded; it holds for the
\* requests of one session served one after the other, not for sessions whose
\* requests overlap
C24_AgreesWhenNoLoadFailed ==
    (data # 0 /\ NoUpdateInProgress /\ load_data(disk).ok) => TheData = RecordsOnDisk

-----------------------------------------------------------------------------
(* Claim about an update request with an empty body.                       *)

\* the step answers an update_data request of session s with the given text
AnsweredWith(s, text) ==
    /\ upd[s].pc \in {"idle", "done"}
    /\ upd'[s] # upd[s]
    /\ upd'[s].pc = "done"
    /\ upd'[s].resp = text

\* the last answer to session s was 'No data received'
ToldNoData(s) == upd[s].pc = "done" /\ upd[s].resp = "No data received"

\* C25: an update_data request of an authorised session with an empty body is
\* answered 'No data received', leaves data.xlsx and the dataset unchanged
\* and leaves the session authorised: its next update_data is not refused as
\* unauthorised, and with a non-empty body it is accepted.
C25_EmptyBodyKeepsAuthorisation ==
    /\ [](\A s \in Sessions : ToldNoData(s) => authorized[s])
    /\ [][\A s \in Sessions :
             /\ AnsweredWith(s, "No data received")
                   => /\ authorized[s] /\ authorized'[s]
                      /\ ~FileOrDatasetChanges
             /\ ToldNoData(s) => ~AnsweredWith(s, "Unauthorized access")]_vars

\* a session has been told 'No data received' and is still authorised, in a
\* process that holds records
C25_Witness ==
    \E s \in Sessions :
        /\ ToldNoData(s)
        /\ authorized[s]
        /\ s \notin used
        /\ TheData # <<>>

=============================================================================
